---- MODULE Spec2Model ----
(***************************************************************************)
(* Model of the Alist2Strm synchronisation engine                          *)
(* (app/modules/alist2strm/alist2strm.py) together with the recursive     *)
(* listing generator AlistClient.iter_path (app/modules/alist/v3/client.py)*)
(* and the AlistPath record (app/modules/alist/v3/path.py).                *)
(*                                                                         *)
(* A file name is the sequence of its dot-separated parts                  *)
(* ("a.mp4" is <<"a","mp4">>), a remote or local path is the sequence of   *)
(* its names.  Local paths are relative to target_dir; <<>> is target_dir. *)
(* One action is one step of a coroutine between two suspension points.    *)
(***************************************************************************)
EXTENDS Integers, Sequences, FiniteSets, TLC

VARIABLES
    cfg,                    \* constructor arguments (immutable during runs)
    mode,                   \* self.mode
    files,                  \* local regular files: path -> [size, mtime, content]
    dirs,                   \* local directories (<<>> is target_dir)
    main_pc,                \* position of run()
    stack,                  \* frames of the recursive generator iter_path
    tasks,                  \* tasks created by tg.create_task, in creation order
    processed_local_paths,  \* self.processed_local_paths
    full_path,              \* self.full_path
    workers_sem,            \* value of self.__max_workers
    dl_sem,                 \* value of self.__max_downloaders
    dl_waiters,             \* tasks waiting for self.__max_downloaders (FIFO)
    tg,                     \* TaskGroup: [aborting, errors, body_error, parent_cancel]
    files_to_delete,        \* remaining iteration of __cleanup_local_files
    run_no,                 \* number of the current run() call
    hist,                   \* history of the runs (observation only)
    token,                  \* AlistClient.__token["token"]
    expires,                \* AlistClient.__token["expires"]
    clock,                  \* time()
    req,                    \* the calls of AlistClient.__request
    logins,                 \* number of calls of api_auth_login (observation only)
    overlap                 \* pairs of requests that were in flight together
                            \* (observation only)

run_vars == <<cfg, mode, files, dirs, main_pc, stack, tasks,
              processed_local_paths, full_path, workers_sem, dl_sem, dl_waiters,
              tg, files_to_delete, run_no, hist>>

token_vars == <<token, expires, clock, req, logins, overlap>>

vars == <<run_vars, token_vars>>

----------------------------------------------------------------------------
(* Bounds *)

MaxRuns == 2        \* run() is called at most this many times
MaxTime == 2        \* remote and pre-existing local timestamps are in 0..MaxTime
MaxLimit == 2       \* max_workers and max_downloaders are in 1..MaxLimit

MaxRequests == 3    \* number of calls of AlistClient.__request
MaxClock == 7       \* time() is in 1..MaxClock

Now == MaxTime + 1  \* local clock while the runs happen
NoTime == -1        \* AlistPath.modified = "" (no timestamp)

----------------------------------------------------------------------------
(* Extension tables (app/extensions/exts.py), restricted to the extensions *)
(* that occur in the modelled remote trees.                                *)

VIDEO_EXTS == {"mp4", "mkv"}
SUBTITLE_EXTS == {"srt"}

\* str.lower() on the extensions that occur
lower(s) ==
    CASE s = "MP4" -> "mp4"
      [] s = "MKV" -> "mkv"
      [] s = "SRT" -> "srt"
      [] s = "TXT" -> "txt"
      [] OTHER -> s

Last(s) == s[Len(s)]
Front(s) == SubSeq(s, 1, Len(s) - 1)

\* AlistPath.suffix: "." + name.split(".")[-1], "" for a directory
suffix(path) == IF path.is_dir THEN "" ELSE Last(path.name)

\* pathlib: a name has a suffix iff its last dot is neither its first nor its
\* last character
HasPathSuffix(name) ==
    /\ Len(name) >= 2
    /\ Last(name) # ""
    /\ ~(Len(name) = 2 /\ name[1] = "")

\* pathlib PurePath.suffix of a local path ("" when there is none)
PathSuffix(p) == IF p # <<>> /\ HasPathSuffix(Last(p)) THEN Last(Last(p)) ELSE ""

\* pathlib PurePath.with_suffix(".strm")
with_suffix_strm(p) ==
    LET name == Last(p) IN
    IF HasPathSuffix(name)
    THEN Append(Front(p), Append(Front(name), "strm"))
    ELSE Append(Front(p), Append(name, "strm"))

\* index of the first occurrence of sub in s, 0 if there is none
FirstOccurrence(s, sub) ==
    LET hits == {i \in 1..(Len(s) - Len(sub) + 1) :
                    SubSeq(s, i, i + Len(sub) - 1) = sub}
    IN IF hits = {} THEN 0 ELSE CHOOSE i \in hits : \A j \in hits : i <= j

\* str.replace(old, "", 1) on paths seen as sequences of names
replace_first(s, old) ==
    LET i == FirstOccurrence(s, old) IN
    IF i = 0 THEN s
    ELSE SubSeq(s, 1, i - 1) \o SubSeq(s, i + Len(old), Len(s))

\* variant: the media extension is tested without lower()
get_local_path_CaseSensitive(c, path, full) ==
    LET local_path ==
            IF c.flatten_mode THEN <<path.name>>
            ELSE IF full # <<>> THEN replace_first(full, c.tree.source_dir)
                 ELSE <<path.name>>
    IN IF suffix(path) \in VIDEO_EXTS
       THEN with_suffix_strm(local_path)
       ELSE local_path

\* Alist2Strm.__get_local_path
get_local_path(c, path, full) ==
    LET local_path ==
            IF c.flatten_mode THEN <<path.name>>
            ELSE IF full # <<>> THEN replace_first(full, c.tree.source_dir)
                 ELSE <<path.name>>
    IN IF lower(suffix(path)) \in VIDEO_EXTS
       THEN with_suffix_strm(local_path)
       ELSE local_path

\* Alist2Strm.__init__: download_exts and process_file_exts
download_exts(c) ==
    (IF c.subtitle /\ ~c.flatten_mode THEN SUBTITLE_EXTS ELSE {})
        \cup (IF c.other_ext # "" THEN {lower(c.other_ext)} ELSE {})

process_file_exts(c) == VIDEO_EXTS \cup download_exts(c)

\* variant: the pattern is applied with match(), which anchors it at the
\* start of the name, so a pattern for an extension matches no file name
IgnoreMatches_Anchored(c, name) == FALSE

\* re.search(sync_ignore, file name): the modelled pattern is
\* "\.(bak|strm)$"
IgnoreMatches(c, name) ==
    /\ c.sync_ignore # ""
    /\ Len(name) >= 2
    /\ Last(name) \in {"bak", "strm"}

----------------------------------------------------------------------------
(* Remote trees served by the Alist server and initial local trees *)

Dir(n) == [name |-> <<n>>, is_dir |-> TRUE, size |-> 0, modified |-> 0, sign |-> ""]
File(stem, ext, sz, mod) ==
    [name |-> <<stem, ext>>, is_dir |-> FALSE, size |-> sz, modified |-> mod, sign |-> "s"]

\* /movies/x.txt (size 1), /x.txt (size 2), source_dir "/"
TreeNested ==
    [source_dir |-> <<>>,
     listing |-> (<<>> :> <<Dir("movies"), File("x", "txt", 2, 1)>>)
              @@ (<< <<"movies">> >> :> <<File("x", "txt", 1, MaxTime)>>)]

\* /media/a.mp4, /media/a.MKV, /media/readme.doc, /media/sub (empty),
\* source_dir "/media"
TreeSiblings ==
    [source_dir |-> << <<"media">> >>,
     listing |-> (<< <<"media">> >> :>
                    <<File("a", "mp4", 2, 1), Dir("sub"), File("a", "MKV", 1, 0),
                      File("readme", "doc", 1, 1)>>)
              @@ (<< <<"media">>, <<"sub">> >> :> <<>>)]

\* /x.SRT (size 2), /x.srt (size 1, no modification time), source_dir "/"
TreeSubtitles ==
    [source_dir |-> <<>>,
     listing |-> (<<>> :> <<File("x", "SRT", 2, 1), File("x", "srt", 1, NoTime)>>)]

Trees == {TreeNested, TreeSiblings, TreeSubtitles}

LocalFile(sz, mt, c) == [size |-> sz, mtime |-> mt, content |-> c]

\* target_dir exists and is empty
LocalEmpty == [dirs |-> {<<>>}, files |-> << >>]

\* a mirror of an earlier state of the remote: a.strm and movies/x.txt are
\* complete, x.txt is truncated, movies/deep/keep.bak was put there by the
\* user
LocalStale ==
    [dirs |-> {<<>>, << <<"movies">> >>, << <<"movies">>, <<"deep">> >>},
     files |-> (<< <<"a", "strm">> >> :> LocalFile(1, 0, "old"))
            @@ (<< <<"x", "txt">> >> :> LocalFile(1, MaxTime, "old"))
            @@ (<< <<"movies">>, <<"x", "txt">> >> :> LocalFile(1, MaxTime, "old"))
            @@ (<< <<"movies">>, <<"deep">>, <<"keep", "bak">> >> :> LocalFile(1, 0, "old"))]

\* target_dir does not exist yet
LocalMissing == [dirs |-> {}, files |-> << >>]

\* a mirror of TreeSubtitles: x.SRT is truncated and older than the remote
\* file, x.srt is complete
LocalSubtitles ==
    [dirs |-> {<<>>},
     files |-> (<< <<"x", "SRT">> >> :> LocalFile(1, 0, "old"))
            @@ (<< <<"x", "srt">> >> :> LocalFile(1, MaxTime, "old"))]

\* the local trees a remote tree is started with
LocalsOf(tree) ==
    IF tree = TreeSubtitles THEN {LocalMissing, LocalSubtitles}
    ELSE {LocalEmpty, LocalStale}

Locals == {LocalEmpty, LocalStale, LocalMissing, LocalSubtitles}

Modes == {"AlistURL", "RawURL", "AlistPath", "Bogus"}

\* the constructor arguments; an ignore pattern is given only together with
\* sync_server, which is the only place that reads it
Configs ==
    {c \in [tree : Trees, local : Locals,
             flatten_mode : BOOLEAN, subtitle : {TRUE}, other_ext : {"txt"},
             overwrite : BOOLEAN, sync_server : BOOLEAN, sync_ignore : {"", "bak|strm"},
             max_workers : 1..MaxLimit, max_downloaders : 1..MaxLimit] :
        /\ c.sync_ignore # "" => c.sync_server
        /\ c.local \in LocalsOf(c.tree)}

source_dir_of(c) == c.tree.source_dir
listing(c, dir_path) == c.tree.listing[dir_path]

----------------------------------------------------------------------------
(* Local filesystem *)

exists(fls, drs, p) == p \in DOMAIN fls \/ p \in drs

Prefixes(p) == {SubSeq(p, 1, n) : n \in 0..Len(p)}

\* Path.mkdir(parents=True, exist_ok=True) is refused when a component of
\* the path is a regular file
mkdir_possible(fls, p) == \A q \in Prefixes(p) : q \notin DOMAIN fls

\* the entries of a directory, as iterdir() sees them
children(fls, drs, d) ==
    {p \in (DOMAIN fls) \cup drs : Len(p) = Len(d) + 1 /\ Front(p) = d}

Remove(fls, p) == [q \in (DOMAIN fls) \ {p} |-> fls[q]]

\* variant: the upward walk over the empty parents is left out
prune_empty_dirs_NoWalk(fls, drs, parent_dir, rmdir_ok) ==
    [dirs |-> drs, failed |-> {}]

\* variant: the walk removes every ancestor below target_dir without testing
\* whether it is empty (rmtree in place of rmdir)
RECURSIVE prune_empty_dirs_NoEmptyTest(_, _, _, _)
prune_empty_dirs_NoEmptyTest(fls, drs, parent_dir, rmdir_ok) ==
    IF parent_dir = <<>> THEN [dirs |-> drs, failed |-> {}]
    ELSE IF rmdir_ok = 0 THEN [dirs |-> drs, failed |-> {parent_dir}]
    ELSE prune_empty_dirs_NoEmptyTest(fls, drs \ {parent_dir}, Front(parent_dir),
                                      rmdir_ok - 1)

\* while parent_dir != target_dir: remove parent_dir if it is empty.
\* The first rmdir_ok rmdir calls of the walk succeed, the next one raises
\* and ends the walk.  Result: the directories left and the directory whose
\* rmdir raised.
RECURSIVE prune_empty_dirs(_, _, _, _)
prune_empty_dirs(fls, drs, parent_dir, rmdir_ok) ==
    IF parent_dir = <<>> THEN [dirs |-> drs, failed |-> {}]
    ELSE IF children(fls, drs, parent_dir) # {} THEN [dirs |-> drs, failed |-> {}]
    ELSE IF rmdir_ok = 0 THEN [dirs |-> drs, failed |-> {parent_dir}]
    ELSE prune_empty_dirs(fls, drs \ {parent_dir}, Front(parent_dir), rmdir_ok - 1)

\* the enumeration at the head of __cleanup_local_files
all_local_files(c, fls) ==
    IF c.flatten_mode THEN {p \in DOMAIN fls : Len(p) = 1}
    ELSE DOMAIN fls

----------------------------------------------------------------------------
(* The filter closure of run() *)

\* variant: processed_local_paths.add is done on the paths that return True
\* only (the add moved below the up-to-date check)
filter_AddWhenAccepted(c, path, full, fls, drs) ==
    LET local_path == get_local_path(c, path, full) IN
    IF path.is_dir
    THEN [result |-> "false", recorded |-> FALSE, local_path |-> <<>>]
    ELSE IF lower(suffix(path)) \notin process_file_exts(c)
    THEN [result |-> "false", recorded |-> FALSE, local_path |-> <<>>]
    ELSE IF ~c.overwrite /\ exists(fls, drs, local_path)
    THEN IF suffix(path) \in download_exts(c) /\ local_path \in DOMAIN fls
         THEN IF path.modified = NoTime
              THEN [result |-> "raise", recorded |-> FALSE, local_path |-> local_path]
              ELSE IF fls[local_path].mtime < path.modified
              THEN [result |-> "true", recorded |-> TRUE, local_path |-> local_path]
              ELSE IF fls[local_path].size < path.size
              THEN [result |-> "true", recorded |-> TRUE, local_path |-> local_path]
              ELSE [result |-> "false", recorded |-> FALSE, local_path |-> local_path]
         ELSE [result |-> "false", recorded |-> FALSE, local_path |-> local_path]
    ELSE [result |-> "true", recorded |-> TRUE, local_path |-> local_path]

\* variant: the comparison of modification time and size is made for every
\* existing local file, pointer files included
filter_CompareAlways(c, path, full, fls, drs) ==
    LET local_path == get_local_path(c, path, full) IN
    IF path.is_dir
    THEN [result |-> "false", recorded |-> FALSE, local_path |-> <<>>]
    ELSE IF lower(suffix(path)) \notin process_file_exts(c)
    THEN [result |-> "false", recorded |-> FALSE, local_path |-> <<>>]
    ELSE IF ~c.overwrite /\ exists(fls, drs, local_path)
    THEN IF local_path \in DOMAIN fls
         THEN IF path.modified = NoTime
              THEN [result |-> "raise", recorded |-> TRUE, local_path |-> local_path]
              ELSE IF fls[local_path].mtime < path.modified
              THEN [result |-> "true", recorded |-> TRUE, local_path |-> local_path]
              ELSE IF fls[local_path].size < path.size
              THEN [result |-> "true", recorded |-> TRUE, local_path |-> local_path]
              ELSE [result |-> "false", recorded |-> TRUE, local_path |-> local_path]
         ELSE [result |-> "false", recorded |-> TRUE, local_path |-> local_path]
    ELSE [result |-> "true", recorded |-> TRUE, local_path |-> local_path]

\* variant: the test "if path.is_dir" is left out of the filter and of
\* AlistPath.suffix, so a directory is treated like a file that is processed
filter_NoDirCheck(c, path, full, fls, drs) ==
    LET local_path == get_local_path(c, path, full) IN
    IF ~path.is_dir /\ lower(suffix(path)) \notin process_file_exts(c)
    THEN [result |-> "false", recorded |-> FALSE, local_path |-> <<>>]
    ELSE IF ~c.overwrite /\ exists(fls, drs, local_path)
    THEN IF suffix(path) \in download_exts(c) /\ local_path \in DOMAIN fls
         THEN IF path.modified = NoTime
              THEN [result |-> "raise", recorded |-> TRUE, local_path |-> local_path]
              ELSE IF fls[local_path].mtime < path.modified
              THEN [result |-> "true", recorded |-> TRUE, local_path |-> local_path]
              ELSE IF fls[local_path].size < path.size
              THEN [result |-> "true", recorded |-> TRUE, local_path |-> local_path]
              ELSE [result |-> "false", recorded |-> TRUE, local_path |-> local_path]
         ELSE [result |-> "false", recorded |-> TRUE, local_path |-> local_path]
    ELSE [result |-> "true", recorded |-> TRUE, local_path |-> local_path]

\* result: "true" / "false" / "raise"; recorded: whether the local path was
\* added to processed_local_paths and self.full_path was assigned
filter(c, path, full, fls, drs) ==
    LET local_path == get_local_path(c, path, full) IN
    IF path.is_dir
    THEN [result |-> "false", recorded |-> FALSE, local_path |-> <<>>]
    ELSE IF lower(suffix(path)) \notin process_file_exts(c)
    THEN [result |-> "false", recorded |-> FALSE, local_path |-> <<>>]
    ELSE IF ~c.overwrite /\ exists(fls, drs, local_path)
    THEN IF suffix(path) \in download_exts(c) /\ local_path \in DOMAIN fls
         THEN IF path.modified = NoTime
              THEN [result |-> "raise", recorded |-> TRUE, local_path |-> local_path]
              ELSE IF fls[local_path].mtime < path.modified
              THEN [result |-> "true", recorded |-> TRUE, local_path |-> local_path]
              ELSE IF fls[local_path].size < path.size
              THEN [result |-> "true", recorded |-> TRUE, local_path |-> local_path]
              ELSE [result |-> "false", recorded |-> TRUE, local_path |-> local_path]
         ELSE [result |-> "false", recorded |-> TRUE, local_path |-> local_path]
    ELSE [result |-> "true", recorded |-> TRUE, local_path |-> local_path]

----------------------------------------------------------------------------
(* State after Alist2Strm.__init__ *)

\* log: the remote calls, delays and filter calls of the traversal, in order;
\* filtered: what each filter call saw and answered; files1, dirs1: the local
\* files and directories when the run started; corrected: the run started
\* with an unknown mode
NoHist ==
    [last |-> "none", prev |-> "none", files0 |-> << >>, dirs0 |-> {},
     deleted |-> {}, skipped |-> {}, unlink_failed |-> {}, rmdir_failed |-> {},
     log |-> << >>, filtered |-> {}, files1 |-> << >>, dirs1 |-> {},
     corrected |-> FALSE]

NewTaskGroup ==
    [aborting |-> FALSE, errors |-> {}, body_error |-> FALSE,
     parent_cancel |-> FALSE, stepped |-> FALSE]

InitRun ==
    /\ cfg \in Configs
    /\ mode \in Modes
    /\ files = cfg.local.files
    /\ dirs = cfg.local.dirs
    /\ main_pc = "idle"
    /\ stack = << >>
    /\ tasks = << >>
    /\ processed_local_paths = {}
    /\ full_path = << <<"unset">> >>
    /\ workers_sem = cfg.max_workers
    /\ dl_sem = cfg.max_downloaders
    /\ dl_waiters = << >>
    /\ tg = NewTaskGroup
    /\ files_to_delete = {}
    /\ run_no = 0
    /\ hist = NoHist

----------------------------------------------------------------------------
(* The token of AlistClient (client.py).  Time is counted in units of which *)
(* the life the client gives a token, 2 days less 5 minutes, is TokenLife.  *)

Permanent == -1     \* __token["expires"] of a token given to the constructor
TokenLife == 2      \* now_stamp + 2 * 24 * 60 * 60 - 5 * 60

Requests == 1..MaxRequests

NewRequest == [pc |-> "idle", seen |-> 0, at |-> 0, login |-> FALSE]

\* State after AlistClient.__init__: a token given to the constructor never
\* expires; with a user name and a password the call of sync_api_me has
\* fetched the first token.
TokenInit ==
    /\ clock = 1
    /\ expires \in {Permanent, 1 + TokenLife}
    /\ token = 0
    /\ req = [r \in Requests |-> NewRequest]
    /\ logins = 0
    /\ overlap = {}

\* the runs are made with a client that was given a permanent token
Init ==
    /\ InitRun
    /\ TokenInit
    /\ expires = Permanent

\* variant: the login is awaited, so other coroutines run while it is under
\* way
LoginBlocksLoop_Awaited == TRUE

\* api_auth_login is a synchronous call (sync=True, used without await): as
\* long as it has not returned, the event loop runs no coroutine
LoginBlocksLoop == \A r \in Requests : req[r].pc # "login"

\* __request up to its await: the property __get_token reads the expiry and
\* the time and, for a temporary token that has expired, calls
\* api_auth_login
TokenStart(r) ==
    /\ req[r].pc = "idle"
    /\ LoginBlocksLoop
    /\ overlap' = overlap \cup {{r, q} : q \in {x \in Requests : req[x].pc \in {"login", "sent"}}}
    /\ IF expires # Permanent /\ expires < clock
       THEN /\ req' = [req EXCEPT ![r] = [pc |-> "login", seen |-> expires,
                                          at |-> clock, login |-> TRUE]]
            /\ logins' = logins + 1
       ELSE /\ req' = [req EXCEPT ![r] = [pc |-> "sent", seen |-> expires,
                                          at |-> clock, login |-> FALSE]]
            /\ logins' = logins
    /\ UNCHANGED <<run_vars, token, expires, clock>>

\* api_auth_login returns the new token, which is stored with the expiry
\* computed from now_stamp, or raises, which ends __request
LoginReturn(r) ==
    /\ req[r].pc = "login"
    /\ \E ok \in BOOLEAN :
        IF ok
        THEN /\ token' = logins
             /\ expires' = req[r].at + TokenLife
             /\ req' = [req EXCEPT ![r].pc = "sent"]
        ELSE /\ req' = [req EXCEPT ![r].pc = "failed"]
             /\ UNCHANGED <<token, expires>>
    /\ UNCHANGED <<run_vars, clock, logins, overlap>>

\* "await self.__client.request(...)" returns
Response(r) ==
    /\ req[r].pc = "sent"
    /\ LoginBlocksLoop
    /\ req' = [req EXCEPT ![r].pc = "done"]
    /\ UNCHANGED <<run_vars, token, expires, clock, logins, overlap>>

\* time passes
Tick ==
    /\ clock < MaxClock
    /\ clock' = clock + 1
    /\ UNCHANGED <<run_vars, token, expires, req, logins, overlap>>

TokenNext ==
    \/ Tick
    \/ \E r \in Requests :
        \/ TokenStart(r)
        \/ LoginReturn(r)
        \/ Response(r)

\* the requests of a client, apart from the runs
TokenSpecInit ==
    /\ InitRun
    /\ cfg = CHOOSE c \in Configs : TRUE
    /\ mode = "AlistURL"
    /\ TokenInit

TokenSpec == TokenSpecInit /\ [][TokenNext]_vars

----------------------------------------------------------------------------
(* Task states *)

Terminal == {"done", "failed", "cancelled"}
InFlight == {"mkdir", "write", "waitdl", "download"}
Writing == {"write", "download"}

TaskIds == 1..Len(tasks)

\* variant: tasks are created without a task group that waits for them
AllTasksDone_NoWait == TRUE

AllTasksDone == \A t \in TaskIds : tasks[t].pc \in Terminal

\* a task that raised and whose done-callback (TaskGroup._on_task_done) has
\* not run yet
UnobservedFailure == \E t \in TaskIds : tasks[t].pc = "failed" /\ t \notin tg.errors

\* variant: run() may be resumed before a task it created has run its first
\* step
NoCreatedTask_AnyOrder == TRUE

\* a task created by create_task runs its first step before its creator is
\* resumed from the next suspension point (FIFO ready queue of the loop)
NoCreatedTask == \A t \in TaskIds : tasks[t].pc # "created"

\* run() is resumed normally from a suspension point of the task-group body.
\* After a task raised, at most the step already queued runs before the
\* done-callback cancels run().
MainMayStep ==
    /\ ~tg.parent_cancel
    /\ ~tg.aborting
    /\ NoCreatedTask
    /\ UnobservedFailure => ~tg.stepped

Stepped == [tg EXCEPT !.stepped = UnobservedFailure]

NewTask(path, full) ==
    [path |-> path, full |-> full, pc |-> "created", local_path |-> << >>,
     content |-> << >>]

\* the frame of iter_path that is running, and the entry its loop is at
Top == stack[Len(stack)]
CurEntry == listing(cfg, Top.dir_path)[Top.idx]
\* full_path = f"{dir_path}/{path.name}"
CurFull == Append(Top.dir_path, CurEntry.name)

----------------------------------------------------------------------------
(* run(): traversal inside "async with self.__max_workers, TaskGroup()" *)

ValidModes == {"AlistURL", "RawURL", "AlistPath"}
is_detail == mode = "RawURL"

\* variant: the mode is used as it was configured
corrected_mode_Keep(m) == m

\* run(): a mode outside the three known ones is replaced by "AlistURL"
corrected_mode(m) == IF m \notin ValidModes THEN "AlistURL" ELSE m

\* what run() and the generator it iterates hold while they execute from one
\* suspension point to the next
Gen ==
    [stack |-> stack, tasks |-> tasks, processed |-> processed_local_paths,
     full_path |-> full_path, hist |-> hist, pc |-> main_pc]

Logged(g, ev, full) == [g EXCEPT !.hist.log = Append(@, <<ev, full>>)]

\* what a filter call saw of the local file and what it answered
FilterCall(path, full, r) ==
    [path |-> path, full |-> full, result |-> r.result, recorded |-> r.recorded,
     local_path |-> r.local_path,
     existed |-> r.local_path # << >> /\ exists(files, dirs, r.local_path),
     lsize |-> IF r.local_path \in DOMAIN files THEN files[r.local_path].size ELSE -1,
     lmtime |-> IF r.local_path \in DOMAIN files THEN files[r.local_path].mtime ELSE -1]

\* variant: a frame that gets its child generator back moves on to its next
\* entry without filtering the directory
RECURSIVE Advance_NoDirFilter(_)
Advance_NoDirFilter(g) ==
    LET top == g.stack[Len(g.stack)] IN
    IF top.idx < Len(listing(cfg, top.dir_path))
    THEN [g EXCEPT !.stack[Len(g.stack)].idx = top.idx + 1, !.pc = "sleep"]
    ELSE IF Len(g.stack) = 1
    THEN [g EXCEPT !.stack = << >>, !.pc = "join"]
    ELSE Advance_NoDirFilter([g EXCEPT !.stack = Front(g.stack)])

RECURSIVE Advance(_), Filtered(_)

\* The loop of iter_path moves to its next entry and suspends in its delay;
\* an exhausted generator returns to the frame that iterates it, which then
\* filters the directory entry it had recursed into; the exhausted root
\* generator ends the body of the task group.
Advance(g) ==
    LET top == g.stack[Len(g.stack)] IN
    IF top.idx < Len(listing(cfg, top.dir_path))
    THEN [g EXCEPT !.stack[Len(g.stack)].idx = top.idx + 1, !.pc = "sleep"]
    ELSE IF Len(g.stack) = 1
    THEN [g EXCEPT !.stack = << >>, !.pc = "join"]
    ELSE Filtered([g EXCEPT !.stack = Front(g.stack)])

\* "if filter(path, full_path)" on the entry the top frame is at, and what
\* follows without suspension: the entry is dropped, or its detail is asked
\* for, or it is yielded to run(), which creates its task
Filtered(g) ==
    LET top == g.stack[Len(g.stack)]
        path == listing(cfg, top.dir_path)[top.idx]
        full == Append(top.dir_path, path.name)
        r == filter(cfg, path, full, files, dirs)
        g1 == [g EXCEPT
                 !.processed = IF r.recorded THEN @ \cup {r.local_path} ELSE @,
                 !.full_path = IF r.recorded THEN full ELSE @,
                 !.hist = [@ EXCEPT
                             !.skipped = IF r.result = "false" /\ r.local_path # << >>
                                         THEN @ \cup {r.local_path} ELSE @,
                             !.log = Append(@, <<"filter", full>>),
                             !.filtered = @ \cup {FilterCall(path, full, r)}]]
    IN CASE r.result = "raise" -> [g1 EXCEPT !.pc = "raise"]
         [] r.result = "false" -> Advance(g1)
         [] r.result = "true" /\ is_detail ->
                [Logged(g1, "detail", full) EXCEPT !.pc = "detail"]
         [] r.result = "true" /\ ~is_detail ->
                Advance([g1 EXCEPT !.tasks = Append(@, NewTask(path, full))])

\* run() up to the first suspension: mode check, the semaphore, the first
\* listing request.  A further run is started after a run that returned.
RunStart ==
    /\ main_pc \in {"idle", "returned"}
    /\ run_no < MaxRuns
    /\ workers_sem > 0
    /\ mode' = corrected_mode(mode)
    /\ processed_local_paths' = {}
    /\ workers_sem' = workers_sem - 1
    /\ tg' = NewTaskGroup
    /\ tasks' = << >>
    /\ stack' = <<[dir_path |-> source_dir_of(cfg), idx |-> 0]>>
    /\ main_pc' = "list"
    /\ run_no' = run_no + 1
    /\ files_to_delete' = {}
    /\ hist' = [NoHist EXCEPT !.prev = hist.last, !.last = hist.last,
                              !.files1 = files, !.dirs1 = dirs,
                              !.corrected = mode \notin ValidModes]
    /\ UNCHANGED <<token_vars, cfg, files, dirs, full_path, dl_sem, dl_waiters>>

\* an exception leaves the body of the task group: TaskGroup.__aexit__
\* aborts the group and waits for the tasks
BodyRaise ==
    /\ tg' = [tg EXCEPT !.aborting = TRUE, !.body_error = TRUE, !.stepped = FALSE]
    /\ main_pc' = "join"
    /\ stack' = << >>

\* run() is suspended again, or an exception left the body
Suspend(g) ==
    /\ tasks' = g.tasks
    /\ processed_local_paths' = g.processed
    /\ full_path' = g.full_path
    /\ hist' = g.hist
    /\ IF g.pc = "raise"
       THEN BodyRaise
       ELSE /\ stack' = g.stack
            /\ main_pc' = g.pc
            /\ tg' = Stepped

\* async_api_fs_list(dir_path) returns
ListReturn ==
    /\ main_pc = "list"
    /\ MainMayStep
    /\ \E ok \in BOOLEAN :
        IF ok
        THEN Suspend(Advance(Logged(Gen, "list", Top.dir_path)))
        ELSE Suspend([Logged(Gen, "list", Top.dir_path) EXCEPT !.pc = "raise"])
    /\ UNCHANGED <<token_vars, cfg, mode, files, dirs, workers_sem, dl_sem, dl_waiters,
                   files_to_delete, run_no>>

\* sleep(wait_time) returns: recurse into a directory (its listing is asked
\* for), or filter the entry
SleepReturn ==
    /\ main_pc = "sleep"
    /\ MainMayStep
    /\ IF CurEntry.is_dir
       THEN Suspend([Logged(Gen, "sleep", CurFull) EXCEPT
                        !.stack = Append(@, [dir_path |-> CurFull, idx |-> 0]),
                        !.pc = "list"])
       ELSE Suspend(Filtered(Logged(Gen, "sleep", CurFull)))
    /\ UNCHANGED <<token_vars, cfg, mode, files, dirs, workers_sem, dl_sem, dl_waiters,
                   files_to_delete, run_no>>

\* async_api_fs_get(full_path) returns; the detailed AlistPath is yielded
\* and run() creates its task
DetailReturn ==
    /\ main_pc = "detail"
    /\ MainMayStep
    /\ \E ok \in BOOLEAN :
        IF ok
        THEN Suspend(Advance([Gen EXCEPT !.tasks = Append(@, NewTask(CurEntry, CurFull))]))
        ELSE Suspend([Gen EXCEPT !.pc = "raise"])
    /\ UNCHANGED <<token_vars, cfg, mode, files, dirs, workers_sem, dl_sem, dl_waiters,
                   files_to_delete, run_no>>

\* the CancelledError requested by the task group reaches run() at the
\* suspension point it is waiting at
MainCancelled ==
    /\ main_pc \in {"list", "sleep", "detail"}
    /\ tg.parent_cancel
    /\ tg' = [tg EXCEPT !.parent_cancel = FALSE]
    /\ main_pc' = "join"
    /\ stack' = << >>
    /\ UNCHANGED <<token_vars, cfg, mode, files, dirs, tasks, processed_local_paths, full_path,
                   workers_sem, dl_sem, dl_waiters, files_to_delete, run_no, hist>>

----------------------------------------------------------------------------
(* __file_processer: one task per yielded AlistPath *)

SetPc(t, pc) == [tasks EXCEPT ![t].pc = pc]

\* the string written to the .strm file
ContentOf(path, full) ==
    CASE mode = "AlistURL" -> <<"download_url", full, path.sign>>
      [] mode = "RawURL" -> <<"raw_url", full>>
      [] OTHER -> << >>

\* the attributes read on lines 171-178 exist on AlistPath for AlistURL and
\* RawURL; AlistPath has no attribute "path", an unknown mode is a ValueError
ContentAvailable == mode \in {"AlistURL", "RawURL"}

\* first step of the task: local path from self.full_path, content by mode,
\* then the mkdir of the parent directory is handed to a thread
TaskStart(t) ==
    /\ tasks[t].pc = "created"
    /\ ~tg.aborting
    /\ tasks' = IF ContentAvailable
                THEN [tasks EXCEPT
                        ![t].pc = "mkdir",
                        ![t].local_path = get_local_path(cfg, tasks[t].path, full_path),
                        ![t].content = ContentOf(tasks[t].path, tasks[t].full)]
                ELSE [tasks EXCEPT
                        ![t].pc = "failed",
                        ![t].local_path = get_local_path(cfg, tasks[t].path, full_path)]
    /\ UNCHANGED <<token_vars, cfg, mode, files, dirs, main_pc, stack, processed_local_paths,
                   full_path, workers_sem, dl_sem, dl_waiters, tg, files_to_delete,
                   run_no, hist>>

\* variant: the download is started without taking a slot
AcquireDownloader_NoSlot(t, tks) ==
    /\ dl_sem' = dl_sem
    /\ dl_waiters' = dl_waiters
    /\ tasks' = [tks EXCEPT ![t].pc = "download"]

\* "async with self.__max_downloaders" is entered by task t
AcquireDownloader(t, tks) ==
    IF dl_sem > 0 /\ dl_waiters = << >>
    THEN /\ dl_sem' = dl_sem - 1
         /\ dl_waiters' = dl_waiters
         /\ tasks' = [tks EXCEPT ![t].pc = "download"]
    ELSE /\ dl_sem' = dl_sem
         /\ dl_waiters' = Append(dl_waiters, t)
         /\ tasks' = [tks EXCEPT ![t].pc = "waitdl"]

\* "async with self.__max_downloaders" is left: the slot goes to the first
\* waiter whose future is not done, or back to the semaphore.  Once the group
\* aborts every waiter is cancelled, so its future is done.
ReleaseDownloader(tks) ==
    IF dl_waiters # << >> /\ ~tg.aborting
    THEN /\ dl_sem' = dl_sem
         /\ dl_waiters' = Tail(dl_waiters)
         /\ tasks' = [tks EXCEPT ![Head(dl_waiters)].pc = "download"]
    ELSE /\ dl_sem' = dl_sem + 1
         /\ dl_waiters' = dl_waiters
         /\ tasks' = tks

\* to_thread(local_path.parent.mkdir, parents=True, exist_ok=True) returns
TaskMkdir(t) ==
    /\ tasks[t].pc = "mkdir"
    /\ ~tg.aborting
    /\ \E ok \in BOOLEAN :
        IF ok /\ mkdir_possible(files, Front(tasks[t].local_path))
        THEN /\ dirs' = dirs \cup Prefixes(Front(tasks[t].local_path))
             /\ IF PathSuffix(tasks[t].local_path) = "strm"
                THEN /\ tasks' = SetPc(t, "write")
                     /\ UNCHANGED <<dl_sem, dl_waiters>>
                ELSE AcquireDownloader(t, tasks)
        ELSE /\ tasks' = SetPc(t, "failed")
             /\ UNCHANGED <<dirs, dl_sem, dl_waiters>>
    /\ UNCHANGED <<token_vars, cfg, mode, files, main_pc, stack, processed_local_paths,
                   full_path, workers_sem, tg, files_to_delete, run_no, hist>>

\* a file left behind by an interrupted write or download
Partial == LocalFile(0, Now, << >>)

\* async_open(local_path, "w") and file.write(content) return
TaskWrite(t) ==
    /\ tasks[t].pc = "write"
    /\ ~tg.aborting
    /\ \E outcome \in {"ok", "open_failed", "write_failed"} :
        IF outcome = "ok" /\ tasks[t].local_path \notin dirs
        THEN /\ files' = (tasks[t].local_path :> LocalFile(1, Now, tasks[t].content))
                            @@ files
             /\ tasks' = SetPc(t, "done")
        ELSE /\ files' = IF outcome = "write_failed" /\ tasks[t].local_path \notin dirs
                         THEN (tasks[t].local_path :> Partial) @@ files
                         ELSE files
             /\ tasks' = SetPc(t, "failed")
    /\ UNCHANGED <<token_vars, cfg, mode, dirs, main_pc, stack, processed_local_paths, full_path,
                   workers_sem, dl_sem, dl_waiters, tg, files_to_delete, run_no, hist>>

\* the local file after RequestUtils.download streamed the whole remote file
downloaded_file(path, full) == LocalFile(path.size, Now, <<"bytes", full>>)

\* RequestUtils.download(path.download_url, local_path) returns and the
\* download slot is released
TaskDownload(t) ==
    /\ tasks[t].pc = "download"
    /\ ~tg.aborting
    /\ \E outcome \in {"ok", "request_failed", "stream_failed"} :
        IF outcome = "ok" /\ tasks[t].local_path \notin dirs
        THEN /\ files' = (tasks[t].local_path :>
                            downloaded_file(tasks[t].path, tasks[t].full)) @@ files
             /\ ReleaseDownloader(SetPc(t, "done"))
        ELSE /\ files' = IF outcome = "stream_failed" /\ tasks[t].local_path \notin dirs
                         THEN (tasks[t].local_path :> Partial) @@ files
                         ELSE files
             /\ ReleaseDownloader(SetPc(t, "failed"))
    /\ UNCHANGED <<token_vars, cfg, mode, dirs, main_pc, stack, processed_local_paths, full_path,
                   workers_sem, tg, files_to_delete, run_no, hist>>

\* TaskGroup._on_task_done for a task that raised: the first error aborts the
\* group (every unfinished task is cancelled) and cancels run() if it is
\* still in the body
TaskGroupAbort(t) ==
    /\ tasks[t].pc = "failed"
    /\ t \notin tg.errors
    /\ tg' = [tg EXCEPT
                !.errors = @ \cup {t},
                !.aborting = TRUE,
                !.stepped = FALSE,
                !.parent_cancel =
                    IF tg.aborting THEN @ ELSE main_pc \in {"list", "sleep", "detail"}]
    /\ UNCHANGED <<token_vars, cfg, mode, files, dirs, main_pc, stack, tasks,
                   processed_local_paths, full_path, workers_sem, dl_sem, dl_waiters,
                   files_to_delete, run_no, hist>>

RemoveWaiter(t) == SelectSeq(dl_waiters, LAMBDA w : w # t)

\* a cancelled task ends at the suspension point it waits at.  The operation
\* it was waiting for may or may not have taken effect.
TaskCancelled(t) ==
    /\ tg.aborting
    /\ tasks[t].pc \notin Terminal
    /\ \E effect \in BOOLEAN :
        CASE tasks[t].pc = "created" ->
                /\ ~effect
                /\ tasks' = SetPc(t, "cancelled")
                /\ UNCHANGED <<files, dirs, dl_sem, dl_waiters>>
          [] tasks[t].pc = "mkdir" ->
                /\ dirs' = IF effect /\ mkdir_possible(files, Front(tasks[t].local_path))
                           THEN dirs \cup Prefixes(Front(tasks[t].local_path))
                           ELSE dirs
                /\ tasks' = SetPc(t, "cancelled")
                /\ UNCHANGED <<files, dl_sem, dl_waiters>>
          [] tasks[t].pc = "write" ->
                /\ files' = IF effect /\ tasks[t].local_path \notin dirs
                            THEN (tasks[t].local_path :> Partial) @@ files
                            ELSE files
                /\ tasks' = SetPc(t, "cancelled")
                /\ UNCHANGED <<dirs, dl_sem, dl_waiters>>
          [] tasks[t].pc = "waitdl" ->
                /\ ~effect
                /\ dl_waiters' = RemoveWaiter(t)
                /\ tasks' = SetPc(t, "cancelled")
                /\ UNCHANGED <<files, dirs, dl_sem>>
          [] tasks[t].pc = "download" ->
                /\ files' = IF effect /\ tasks[t].local_path \notin dirs
                            THEN (tasks[t].local_path :> Partial) @@ files
                            ELSE files
                /\ ReleaseDownloader(SetPc(t, "cancelled"))
                /\ UNCHANGED dirs
    /\ UNCHANGED <<token_vars, cfg, mode, main_pc, stack, processed_local_paths, full_path,
                   workers_sem, tg, files_to_delete, run_no, hist>>

----------------------------------------------------------------------------
(* End of the task group and __cleanup_local_files *)

\* variant: the cleanup is reached whatever the task group raised (the call
\* moved into a finally block)
GroupFailed_Never == FALSE

\* variant: the errors of the tasks are dropped (gather with
\* return_exceptions instead of a task group)
GroupFailed_BodyOnly == tg.body_error

\* TaskGroup.__aexit__ re-raises the error of the body or the errors of the
\* tasks
GroupFailed == tg.body_error \/ tg.errors # {}

\* variant: the set difference with processed_local_paths is left out
FilesToDelete_AllLocalFiles == all_local_files(cfg, files)

\* files_to_delete = set(all_local_files) - self.processed_local_paths
FilesToDelete == all_local_files(cfg, files) \ processed_local_paths

\* TaskGroup.__aexit__ returns once every task is done and its done-callback
\* has run; the semaphore is released; then the cleanup starts (its
\* enumeration and set difference run without suspension)
Join ==
    /\ main_pc = "join"
    /\ AllTasksDone
    /\ ~UnobservedFailure
    /\ workers_sem' = workers_sem + 1
    /\ IF GroupFailed
       THEN /\ main_pc' = "raised"
            /\ files_to_delete' = {}
            /\ hist' = [hist EXCEPT !.last = "error"]
       ELSE IF ~cfg.sync_server
       THEN /\ main_pc' = "returned"
            /\ files_to_delete' = {}
            /\ hist' = [hist EXCEPT !.last = "ok"]
       ELSE IF cfg.flatten_mode /\ << >> \notin dirs
       THEN \* target_dir.iterdir() raises FileNotFoundError
            /\ main_pc' = "raised"
            /\ files_to_delete' = {}
            /\ hist' = [hist EXCEPT !.last = "error"]
       ELSE /\ main_pc' = "cleanup"
            /\ files_to_delete' = FilesToDelete
            /\ hist' = [hist EXCEPT !.files0 = files, !.dirs0 = dirs]
    /\ UNCHANGED <<token_vars, cfg, mode, files, dirs, stack, tasks, processed_local_paths,
                   full_path, dl_sem, dl_waiters, tg, run_no>>

\* one iteration of "for file_path in files_to_delete" (a set: any order)
CleanupFile(file_path) ==
    /\ main_pc = "cleanup"
    /\ file_path \in files_to_delete
    /\ files_to_delete' = files_to_delete \ {file_path}
    /\ IF IgnoreMatches(cfg, Last(file_path))
       THEN UNCHANGED <<files, dirs, hist>>
       ELSE \E unlink_ok \in BOOLEAN, rmdir_ok \in 0..(Len(file_path) - 1) :
            IF file_path \in DOMAIN files /\ unlink_ok
            THEN LET walk == prune_empty_dirs(Remove(files, file_path), dirs,
                                              Front(file_path), rmdir_ok)
                 IN /\ files' = Remove(files, file_path)
                    /\ dirs' = walk.dirs
                    /\ hist' = [hist EXCEPT !.deleted = @ \cup {file_path},
                                            !.rmdir_failed = @ \cup walk.failed]
            ELSE /\ rmdir_ok = 0
                 /\ hist' = IF file_path \in DOMAIN files
                            THEN [hist EXCEPT !.unlink_failed = @ \cup {file_path}]
                            ELSE hist
                 /\ UNCHANGED <<files, dirs>>
    /\ UNCHANGED <<token_vars, cfg, mode, main_pc, stack, tasks, processed_local_paths, full_path,
                   workers_sem, dl_sem, dl_waiters, tg, run_no>>

\* the loop is over: run() logs and returns
CleanupDone ==
    /\ main_pc = "cleanup"
    /\ files_to_delete = {}
    /\ main_pc' = "returned"
    /\ hist' = [hist EXCEPT !.last = "ok"]
    /\ UNCHANGED <<token_vars, cfg, mode, files, dirs, stack, tasks, processed_local_paths,
                   full_path, workers_sem, dl_sem, dl_waiters, tg, files_to_delete,
                   run_no>>

----------------------------------------------------------------------------

Next ==
    \/ RunStart
    \/ ListReturn
    \/ SleepReturn
    \/ DetailReturn
    \/ MainCancelled
    \/ Join
    \/ CleanupDone
    \/ \E f \in files_to_delete : CleanupFile(f)
    \/ \E t \in TaskIds :
        \/ TaskStart(t)
        \/ TaskMkdir(t)
        \/ TaskWrite(t)
        \/ TaskDownload(t)
        \/ TaskGroupAbort(t)
        \/ TaskCancelled(t)

Spec == Init /\ [][Next]_vars

TypeOK ==
    /\ main_pc \in {"idle", "list", "sleep", "detail", "join", "cleanup",
                    "returned", "raised"}
    /\ mode \in Modes
    /\ \A t \in TaskIds : tasks[t].pc \in {"created"} \cup InFlight \cup Terminal
    /\ workers_sem \in 0..MaxLimit
    /\ dl_sem \in 0..MaxLimit

----------------------------------------------------------------------------
(* Properties *)

ReconcilerRan == cfg.sync_server /\ main_pc \in {"cleanup", "returned"}

AncestorsOf(p) == Prefixes(p) \ {<< >>, p}

\* C1: with reconciliation enabled, every local file whose path is in
\* processed_local_paths and that exists when the Reconciler starts still
\* exists, unchanged, at every point of the reconciliation and after it.
C1_ReconciliationSafety ==
    ReconcilerRan =>
        \A p \in processed_local_paths \cap DOMAIN hist.files0 :
            p \in DOMAIN files /\ files[p] = hist.files0[p]

\* a reconciliation that deleted an orphan has ended, and both a file the
\* filter skipped and a file a task wrote are in place
C1_Witness ==
    /\ ReconcilerRan
    /\ main_pc = "returned"
    /\ hist.deleted # {}
    /\ hist.skipped \cap DOMAIN files # {}
    /\ \E t \in TaskIds : tasks[t].pc = "done" /\ tasks[t].local_path \in DOMAIN files

\* C2: a task that raised never aborts the task group, never cancels a sibling
\* and never makes run() end with an error.
C2_FailureIsolated ==
    (\E t \in TaskIds : tasks[t].pc = "failed") =>
        /\ ~tg.aborting
        /\ main_pc # "raised"
        /\ \A u \in TaskIds : tasks[u].pc # "cancelled"

\* C3: whenever the Reconciler is running or has deleted a file in this run,
\* the traversal generator is exhausted and every task has finished.
C3_ReconcilerAfterDrain ==
    (main_pc = "cleanup" \/ hist.deleted # {}) =>
        /\ stack = << >>
        /\ main_pc \in {"cleanup", "returned"}
        /\ \A t \in TaskIds : tasks[t].pc \in Terminal

\* the Reconciler is deleting after tasks of the same run wrote files
C3_Witness ==
    /\ main_pc = "cleanup"
    /\ hist.deleted # {}
    /\ files_to_delete # {}
    /\ Cardinality({t \in TaskIds : tasks[t].pc = "done"}) >= 2

\* C4: every local path the filter computed is in processed_local_paths from
\* the filter call on, whether the entry was skipped or accepted, and the path
\* a started task works on is in processed_local_paths.
C4_RecordedBeforeWrite ==
    /\ hist.skipped \subseteq processed_local_paths
    /\ \A t \in TaskIds :
        /\ get_local_path(cfg, tasks[t].path, tasks[t].full) \in processed_local_paths
        /\ tasks[t].local_path # << >> =>
                tasks[t].local_path \in processed_local_paths

\* one entry was skipped as up to date while a task is writing another one
C4_Witness ==
    /\ hist.skipped # {}
    /\ \E t \in TaskIds :
        /\ tasks[t].pc \in Writing
        /\ tasks[t].local_path \notin hist.skipped

\* C5 as stated: after the Reconciler finished, every regular file under
\* target_dir is in processed_local_paths or matches the ignore pattern, and
\* no directory below target_dir that lost a file is left empty.
C5_Completeness_AsStated ==
    (ReconcilerRan /\ main_pc = "returned") =>
        /\ \A p \in DOMAIN files :
              p \in processed_local_paths \/ IgnoreMatches(cfg, Last(p))
        /\ \A d \in dirs \ {<< >>} :
              (\E p \in hist.deleted : d \in AncestorsOf(p)) =>
                  children(files, dirs, d) # {}

\* C5 amended: after the Reconciler finished, every file it enumerated (the
\* direct children of target_dir in flatten mode, every file below it
\* otherwise) that is not in processed_local_paths, does not match the ignore
\* pattern and whose unlink did not fail is gone, and every directory below
\* target_dir that is an ancestor of a deleted file and is empty is one whose
\* rmdir failed.
C5_Completeness ==
    (ReconcilerRan /\ main_pc = "returned") =>
        /\ \A p \in DOMAIN hist.files0 :
              (/\ cfg.flatten_mode => Len(p) = 1
               /\ p \notin processed_local_paths
               /\ ~IgnoreMatches(cfg, Last(p))
               /\ p \notin hist.unlink_failed) => p \notin DOMAIN files
        /\ \A d \in dirs \ {<< >>} :
              (/\ \E p \in hist.deleted : d \in AncestorsOf(p)
               /\ children(files, dirs, d) = {}) => d \in hist.rmdir_failed

\* the nested orphan movies/deep/keep.bak was deleted and its two ancestors
\* went with it
C5_Witness ==
    /\ ReconcilerRan
    /\ main_pc = "returned"
    /\ << <<"movies">>, <<"deep">>, <<"keep", "bak">> >> \in hist.deleted
    /\ << <<"movies">> >> \in hist.dirs0
    /\ << <<"movies">> >> \notin dirs
    /\ << <<"movies">>, <<"deep">> >> \notin dirs

\* C6: the number of tasks that have started and not finished never exceeds
\* max_workers.
C6_WorkersBounded ==
    Cardinality({t \in TaskIds : tasks[t].pc \in InFlight}) <= cfg.max_workers

Downloading == {t \in TaskIds : tasks[t].pc = "download"}

\* C7: at most max_downloaders tasks are in the download step; every slot is
\* either free or held by a task in the download step (so a download that
\* ended, failed or was cancelled gave its slot back); a task whose local path
\* is a .strm file neither holds nor waits for a slot.
C7_DownloadsBounded ==
    /\ Cardinality(Downloading) <= cfg.max_downloaders
    /\ dl_sem + Cardinality(Downloading) = cfg.max_downloaders
    /\ \A t \in TaskIds :
        PathSuffix(tasks[t].local_path) = "strm" =>
            /\ tasks[t].pc \notin {"waitdl", "download"}
            /\ \A i \in 1..Len(dl_waiters) : dl_waiters[i] # t

\* with a single slot: one download failed halfway and another task holds the
\* slot afterwards
C7_Witness ==
    /\ cfg.max_downloaders = 1
    /\ \E t, u \in TaskIds :
        /\ tasks[t].pc = "failed"
        /\ PathSuffix(tasks[t].local_path) # "strm"
        /\ tasks[t].local_path \in DOMAIN files
        /\ files[tasks[t].local_path] = Partial
        /\ tasks[u].pc = "download"

RunEnded == main_pc \in {"cleanup", "returned", "raised"}

\* C8: run() is past the task group only when every task has finished; when
\* a task raised, run() ends raised; and once the group aborts, an unfinished
\* task can only end cancelled.
C8_JoinAndFailFast ==
    /\ [](RunEnded => \A t \in TaskIds : tasks[t].pc \in Terminal)
    /\ []((RunEnded /\ \E t \in TaskIds : tasks[t].pc = "failed") => main_pc = "raised")
    /\ [][(tg.aborting /\ run_no' = run_no) =>
            \A t \in TaskIds :
                tasks[t].pc \notin Terminal =>
                    tasks'[t].pc \in {tasks[t].pc, "cancelled"}]_vars

\* run() ended with the error of a task and a sibling was cancelled
C8_Witness ==
    /\ main_pc = "raised"
    /\ \E t, u \in TaskIds : tasks[t].pc = "failed" /\ tasks[u].pc = "cancelled"

C10_NoConcurrentWriters ==
    \A t, u \in TaskIds :
        (t # u /\ tasks[t].pc \in Writing /\ tasks[u].pc \in Writing) =>
            tasks[t].local_path # tasks[u].local_path

----------------------------------------------------------------------------
(* Pointer files and the skip decisions of the filter *)

IsMedia(path) == ~path.is_dir /\ lower(suffix(path)) \in VIDEO_EXTS

\* the string a pointer file has to hold in mode m
PointerString(m, path, full) ==
    CASE m = "AlistURL" -> <<"download_url", full, path.sign>>
      [] m = "RawURL" -> <<"raw_url", full>>
      [] m = "AlistPath" -> <<"path", full>>

SoleWriter(t) == \A u \in TaskIds : tasks[u].local_path = tasks[t].local_path => u = t

\* C11: in each of the three modes the task of an accepted media entry fails
\* only in a filesystem operation (its string is determined first), and when
\* it is done and no other entry shares its pointer path, the pointer file
\* exists and holds exactly the string of the mode in place of any previous
\* content.
C11_PointerContent ==
    \A t \in TaskIds :
        IsMedia(tasks[t].path) =>
            /\ tasks[t].pc = "failed" => tasks[t].content # << >>
            /\ tasks[t].pc = "done" /\ SoleWriter(t) =>
                /\ tasks[t].local_path \in DOMAIN files
                /\ files[tasks[t].local_path] =
                      LocalFile(1, Now, PointerString(mode, tasks[t].path, tasks[t].full))

IsAux(path) == ~path.is_dir /\ lower(suffix(path)) \in download_exts(cfg)

\* C13: with overwrite disabled, an entry whose extension is, without regard
\* to case, in the download set and whose local file exists is accepted
\* exactly when the local file is older or smaller than the remote file; a
\* decision is made also when the entry carries no modification time.
C13_AuxRefresh ==
    ~cfg.overwrite =>
        \A f \in hist.filtered :
            IsAux(f.path) /\ f.lsize >= 0 =>
                f.result = IF f.lmtime < f.path.modified \/ f.lsize < f.path.size
                           THEN "true" ELSE "false"

----------------------------------------------------------------------------
(* Directories, the path mapping and the order of the traversal *)

InLog(ev, full) == \E i \in 1..Len(hist.log) : hist.log[i] = <<ev, full>>

\* C14: the filter answers False for every directory entry and records
\* nothing for it, no task is ever created for a directory, every recorded
\* path was recorded for a file entry, and a directory that was filtered had
\* been listed.
C14_DirectoriesOnlyRecursed ==
    /\ \A f \in hist.filtered :
          f.path.is_dir => /\ f.result = "false"
                           /\ ~f.recorded
                           /\ InLog("list", f.full)
    /\ \A t \in TaskIds : ~tasks[t].path.is_dir
    /\ \A p \in processed_local_paths :
          \E f \in hist.filtered : ~f.path.is_dir /\ f.recorded /\ f.local_path = p

\* a run has ended that filtered a directory after the task of a file inside
\* it had been created
C14_Witness ==
    /\ main_pc = "returned"
    /\ \E f \in hist.filtered :
          /\ f.path.is_dir
          /\ \E t \in TaskIds : Front(tasks[t].full) = f.full /\ tasks[t].pc = "done"

\* the remote path below the configured root
BelowRoot(full) == SubSeq(full, Len(cfg.tree.source_dir) + 1, Len(full))

\* the name with its extension replaced by the pointer extension if the
\* extension is, without regard to case, a media extension
PointerName(name) ==
    IF lower(name[Len(name)]) \in VIDEO_EXTS
    THEN Append(SubSeq(name, 1, Len(name) - 1), "strm")
    ELSE name

MappedPath(path, full) ==
    IF cfg.flatten_mode THEN <<PointerName(path.name)>>
    ELSE LET rel == BelowRoot(full)
         IN Append(SubSeq(rel, 1, Len(rel) - 1), PointerName(rel[Len(rel)]))

\* C15: every entry the filter is called on lies below the configured remote
\* root, and the local path the filter records for it is, in hierarchical
\* mode, its remote path below that root and, in flatten mode, its name, the
\* extension replaced by the pointer extension exactly for a media extension
\* in any case; processed_local_paths holds exactly the recorded paths.
C15_PathMapping ==
    /\ \A f \in hist.filtered :
          /\ SubSeq(f.full, 1, Len(cfg.tree.source_dir)) = cfg.tree.source_dir
          /\ f.recorded => f.local_path = MappedPath(f.path, f.full)
    /\ processed_local_paths = {f.local_path : f \in {g \in hist.filtered : g.recorded}}

\* a run in hierarchical mode below a remote root other than "/" has ended
\* after a media entry with an upper-case extension was recorded
C15_Witness ==
    /\ ~cfg.flatten_mode
    /\ cfg.tree.source_dir # << >>
    /\ main_pc = "returned"
    /\ \E f \in hist.filtered :
          f.recorded /\ IsMedia(f.path) /\ suffix(f.path) # lower(suffix(f.path))

----------------------------------------------------------------------------
(* Failures of the cleanup *)

\* C16: the cleanup never ends the run with an error: a run with sync_server
\* raises only what the task group raised (a failed deletion or a failed
\* enumeration of target_dir does not make it raise), and when it returns
\* every file of files_to_delete has been attempted.
C16_ReconcilerNeverAborts ==
    cfg.sync_server =>
        /\ main_pc = "raised" => tg.body_error \/ tg.errors # {}
        /\ main_pc = "returned" => files_to_delete = {}

----------------------------------------------------------------------------
(* The mode of a run *)

\* C17: once a run has started the mode is one of the three known modes; a
\* run that was started with another mode proceeds in mode "AlistURL": no
\* detail is asked for, and no task fails before its content is determined.
C17_ModeCorrected ==
    /\ run_no >= 1 => mode \in ValidModes
    /\ hist.corrected =>
          /\ mode = "AlistURL"
          /\ main_pc # "detail"
          /\ \A i \in 1..Len(hist.log) : hist.log[i][1] # "detail"
          /\ \A t \in TaskIds : tasks[t].pc = "failed" => tasks[t].content # << >>

\* a run started with an unknown mode has returned after it wrote a pointer
\* file holding the download URL
C17_Witness ==
    /\ hist.corrected
    /\ main_pc = "returned"
    /\ \E t \in TaskIds :
          /\ IsMedia(tasks[t].path) /\ tasks[t].pc = "done"
          /\ tasks[t].content = <<"download_url", tasks[t].full, tasks[t].path.sign>>

----------------------------------------------------------------------------
(* Order of the traversal *)

\* the listings, delays and filter calls of a depth-first traversal of the
\* directory dir_path in listing order: a directory is listed; each of its
\* entries is delayed, then its subtree is traversed if it is a directory,
\* then it is filtered
RECURSIVE DepthFirst(_), DepthFirstFrom(_, _)
DepthFirst(dir_path) == << <<"list", dir_path>> >> \o DepthFirstFrom(dir_path, 1)

DepthFirstFrom(dir_path, i) ==
    IF i > Len(cfg.tree.listing[dir_path]) THEN << >>
    ELSE LET entry == cfg.tree.listing[dir_path][i]
             full == Append(dir_path, entry.name)
         IN << <<"sleep", full>> >>
            \o (IF entry.is_dir THEN DepthFirst(full) ELSE << >>)
            \o << <<"filter", full>> >>
            \o DepthFirstFrom(dir_path, i + 1)

TraversalLog == SelectSeq(hist.log, LAMBDA e : e[1] # "detail")

\* C18: the listings, delays and filter calls made so far are, in this
\* order, the beginning of the depth-first traversal of the remote tree, in
\* which every directory is listed once and every entry is delayed once and
\* then, after its whole subtree, filtered once; when the task group has
\* ended without error they are the whole of it.
C18_DepthFirstOrder ==
    LET want == DepthFirst(cfg.tree.source_dir) IN
    /\ Len(TraversalLog) <= Len(want)
    /\ TraversalLog = SubSeq(want, 1, Len(TraversalLog))
    /\ run_no >= 1 /\ main_pc \in {"cleanup", "returned"} => TraversalLog = want

\* a run has returned that traversed a directory with an entry in it and a
\* sibling after it
C18_Witness ==
    /\ main_pc = "returned"
    /\ \E i \in 1..Len(hist.log) :
          /\ hist.log[i][1] = "list"
          /\ hist.log[i][2] # cfg.tree.source_dir
          /\ i + 1 < Len(hist.log)
          /\ hist.log[i + 1][1] = "sleep"
    /\ hist.log[Len(hist.log)][1] = "filter"
    /\ Len(hist.log[Len(hist.log)][2]) = Len(cfg.tree.source_dir) + 1

----------------------------------------------------------------------------
(* The two limits *)

\* a remote call or a filesystem operation of the current run has failed
OpFailed ==
    \/ \E t \in TaskIds : tasks[t].pc = "failed" /\ tasks[t].content # << >>
    \/ tg.body_error /\ \A f \in hist.filtered : f.result # "raise"
    \/ hist.unlink_failed # {}
    \/ hist.rmdir_failed # {}

\* the entries of the remote tree
AllEntries ==
    {[path |-> cfg.tree.listing[d][i], full |-> Append(d, cfg.tree.listing[d][i].name)] :
        <<d, i>> \in {di \in (DOMAIN cfg.tree.listing) \X (1..4) :
                        di[2] <= Len(cfg.tree.listing[di[1]])}}

\* what the filter answers for an entry on the local tree the first run
\* starts with; the limits are not read
FirstAnswer(e) == filter(cfg, e.path, e.full, cfg.local.files, cfg.local.dirs)

\* C19: in a first run in which no remote call and no filesystem operation
\* fails, whatever the two limits are, run() does not raise, a task waits
\* for a download slot only while another task downloads, and when the task
\* group has ended the recorded paths and the entries given to tasks are
\* those that follow from the remote tree and the initial local tree alone.
C19_LimitsOnlyThroughput ==
    run_no = 1 /\ ~OpFailed =>
        /\ main_pc # "raised"
        /\ \A t \in TaskIds :
              tasks[t].pc = "waitdl" => \E u \in TaskIds : tasks[u].pc = "download"
        /\ main_pc \in {"cleanup", "returned"} =>
              /\ processed_local_paths =
                    {FirstAnswer(e).local_path : e \in {x \in AllEntries : FirstAnswer(x).recorded}}
              /\ {tasks[t].full : t \in TaskIds} =
                    {e.full : e \in {x \in AllEntries : FirstAnswer(x).result = "true"}}

----------------------------------------------------------------------------
(* self.full_path *)

\* C20: a task that has not yet run its first step finds in self.full_path
\* the full path of its own entry, and the local path a task has computed is
\* the one the filter recorded in processed_local_paths for that entry, in
\* every interleaving and with or without the detail call.
C20_TaskUsesOwnPath ==
    \A t \in TaskIds :
        /\ tasks[t].pc = "created" => full_path = tasks[t].full
        /\ tasks[t].local_path # << >> =>
              /\ tasks[t].local_path \in processed_local_paths
              /\ \E f \in hist.filtered :
                    /\ f.full = tasks[t].full
                    /\ f.recorded
                    /\ f.local_path = tasks[t].local_path

\* in hierarchical mode with the detail call, the tasks of two entries of
\* different directories have both written their files
C20_Witness ==
    /\ ~cfg.flatten_mode
    /\ mode = "RawURL"
    /\ \E t, u \in TaskIds :
          /\ Len(tasks[t].full) # Len(tasks[u].full)
          /\ tasks[t].pc = "done" /\ tasks[u].pc = "done"
          /\ tasks[t].local_path # tasks[u].local_path

----------------------------------------------------------------------------
(* Runs that end with an error *)

\* the body of the task group or one of its tasks has raised in this run
RunFailed ==
    \/ tg.body_error
    \/ tg.errors # {}
    \/ \E t \in TaskIds : tasks[t].pc = "failed"

\* C21: in a run in which a listing, a detail call, the filter or a task has
\* raised, the cleanup is never entered, no deletion is attempted, and every
\* local file and directory that was there when the run started is still
\* there.
C21_NoCleanupAfterError ==
    RunFailed =>
        /\ main_pc \notin {"cleanup", "returned"}
        /\ hist.deleted = {} /\ hist.unlink_failed = {} /\ hist.rmdir_failed = {}
        /\ DOMAIN hist.files1 \subseteq DOMAIN files
        /\ hist.dirs1 \subseteq dirs

\* a run with sync_server has raised after a listing failed below the root,
\* while local files that the traversal had not recorded were there
C21_Witness ==
    /\ cfg.sync_server
    /\ main_pc = "raised"
    /\ tg.body_error
    /\ Len(hist.log) > 1
    /\ hist.log[Len(hist.log)][1] = "list"
    /\ (DOMAIN files) \ processed_local_paths # {}

----------------------------------------------------------------------------
(* What the cleanup removes *)

\* C22: during and after the cleanup target_dir is still there, every file
\* and directory that is left has all its ancestors, and a directory that
\* was removed is an ancestor of a deleted file; in flatten mode no directory
\* is removed and every file below a subdirectory is unchanged.
C22_OnlyEmptyAncestorsRemoved ==
    ReconcilerRan =>
        /\ << >> \in hist.dirs0 => << >> \in dirs
        /\ \A p \in (DOMAIN files) \cup dirs : Prefixes(p) \subseteq dirs \cup {p}
        /\ \A d \in hist.dirs0 \ dirs : \E p \in hist.deleted : d \in AncestorsOf(p)
        /\ cfg.flatten_mode =>
              /\ dirs = hist.dirs0
              /\ \A p \in DOMAIN hist.files0 :
                    Len(p) > 1 => p \in DOMAIN files /\ files[p] = hist.files0[p]

\* the cleanup has ended after a walk removed the empty parent of a deleted
\* file and stopped at the next ancestor, which is not target_dir and still
\* holds a file
C22_Witness ==
    /\ ReconcilerRan
    /\ main_pc = "returned"
    /\ \E p \in hist.deleted :
          /\ Len(p) = 3
          /\ Front(p) \notin dirs
          /\ Front(Front(p)) \in dirs
          /\ Front(Front(p)) \notin hist.rmdir_failed
          /\ \E q \in DOMAIN files : Front(q) = Front(Front(p))

\* the file name ends in one of the extensions of the ignore pattern
Ignored(p) == Last(p)[Len(Last(p))] \in {"bak", "strm"}

\* C23: with an ignore pattern, in every run a file whose name matches it
\* and that was there when the cleanup started is still there unchanged
\* during and after the cleanup, recorded in processed_local_paths or not,
\* and so are target_dir and all the directories above the file.
C23_IgnoredFilesKept ==
    cfg.sync_ignore # "" /\ ReconcilerRan =>
        \A p \in DOMAIN hist.files0 :
            Ignored(p) =>
                /\ p \notin hist.deleted
                /\ p \in DOMAIN files
                /\ files[p] = hist.files0[p]
                /\ Prefixes(p) \ {p} \subseteq dirs

\* a cleanup with an ignore pattern has ended: it deleted a file next to the
\* directory of a matching file that was not recorded, and a matching file
\* that was recorded is there too
C23_Witness ==
    /\ cfg.sync_ignore # ""
    /\ ReconcilerRan
    /\ main_pc = "returned"
    /\ \E p \in DOMAIN files, q \in hist.deleted :
          /\ Ignored(p)
          /\ p \notin processed_local_paths
          /\ Len(p) = 3
          /\ Front(q) = Front(Front(p))
    /\ \E p \in DOMAIN files : Ignored(p) /\ p \in processed_local_paths

----------------------------------------------------------------------------
(* The token *)

\* C24: a permanent token never leads to a login call; a request calls
\* api_auth_login only when the expiry it read is earlier than the time it
\* read; of two requests that were in flight together and read the same
\* expiry at most one called it; and a login that fails leaves the stored
\* token and expiry as they were.
C24_TokenSession ==
    /\ [](expires = Permanent => logins = 0)
    /\ [](\A r \in Requests :
            req[r].login => req[r].seen # Permanent /\ req[r].seen < req[r].at)
    /\ [](\A pair \in overlap : \A r, q \in pair :
            r # q /\ req[r].seen = req[q].seen => ~(req[r].login /\ req[q].login))
    /\ [][\A r \in Requests :
            req[r].pc = "login" /\ req'[r].pc = "failed" =>
                token' = token /\ expires' = expires]_vars

\* with a temporary token, a request has logged in, a request that was in
\* flight together with it has read the new expiry and made no login, and a
\* login of another request has failed
C24_Witness ==
    /\ expires # Permanent
    /\ \E r, q \in Requests :
          /\ {r, q} \in overlap
          /\ r # q
          /\ req[r].login /\ req[r].pc \in {"sent", "done"}
          /\ ~req[q].login /\ req[q].at >= req[r].at /\ req[q].seen > req[r].seen
    /\ \E r \in Requests : req[r].pc = "failed"

====
